---- MODULE Spec2Model ----
(***************************************************************************)
(* Model of tensorflow/core/profiler/utils/group_events.cc: GroupEvents    *)
(* builds one EventNode per XEvent, nests the nodes of each line by time   *)
(* containment (ConnectIntraThread), links nodes across lines by the       *)
(* correlation rules (ConnectInterThread) and assigns group ids from the   *)
(* root event types (CreateEventGroup).                                    *)
(*                                                                         *)
(* Node i wraps event i; events are numbered in the order in which         *)
(* GroupEvents visits them (host plane first, then each device plane, the  *)
(* lines of a plane in order, the events of a line in order).  A null      *)
(* parent_ is 0, an absent group_id_ is NoGroup, an absent stat is Absent. *)
(***************************************************************************)
EXTENDS Integers, Sequences, FiniteSets, TLC

\* ---------------------------------------------------------------- bounds
NumEvents == 3
MaxTime == 2
MaxVal == 2
NumDevices == 1
MaxRules == 2
MaxRoots == 2
MaxPoint == 1

Nodes == 1 .. NumEvents
NoGroup == 0 - 1

\* ------------------------------------------------- well-known identifiers
kUnknownHostEventType == "UnknownHostEventType"
kTraceContext == "TraceContext"
kSessionRun == "SessionRun"
kFunctionRun == "FunctionRun"
kExecutorStateProcess == "ExecutorStateProcess"
kKernelLaunch == "KernelLaunch"
kKernelExecute == "KernelExecute"

kStepId == "StepId"
kCorrelationId == "CorrelationId"
kDeviceId == "DeviceId"
kGraphType == "GraphType"
kStepNum == "StepNum"
kIterNum == "IterNum"
kGroupId == "GroupId"
kStepName == "StepName"

StatTypes ==
  {kStepId, kCorrelationId, kDeviceId, kGraphType, kStepNum, kIterNum,
   kGroupId, kStepName}

\* ------------------------------------------------------------ stat values
\* An XStat value is a signed integer, an unsigned integer or a string; the
\* three cases share one record shape.
Absent == [kind |-> "absent", i |-> 0, s |-> ""]
IntStat(x) == [kind |-> "int", i |-> x, s |-> ""]
UintStat(x) == [kind |-> "uint", i |-> x, s |-> ""]
StrStat(x) == [kind |-> "str", i |-> 0, s |-> x]

\* The accessors of XStat: the value of the case that is set, the default
\* (0, "") of a case that is not.
Int64Value(v) == IF v.kind = "int" THEN v.i ELSE 0
Uint64Value(v) == IF v.kind = "uint" THEN v.i ELSE 0
StrValue(v) == IF v.kind = "str" THEN v.s ELSE ""

\* The reading of a correlation key component: int64_value() of an int64
\* stat, uint64_value() of anything else.
KeyValue(v) == IF v.kind = "int" THEN Int64Value(v) ELSE Uint64Value(v)

NoStats == [t \in StatTypes |-> Absent]

VARIABLES
  host_trace,            \* TRUE iff the host_trace pointer is not null
  events,                \* event i: [plane, line, type, start, end]
  stats,                 \* stats[i][t]: the stat of type t of event i
  schema,                \* schema[p]: stat metadata known to plane p's visitor
  connect_info_list,     \* the correlation rules
  root_event_types,      \* the root event types
  pc,                    \* position of GroupEvents
  event_node_map,        \* event type -> sequence of nodes
  next_event,            \* ConnectIntraThread: the next event to wrap
  parent_nodes,          \* ConnectIntraThread: the stack of the current line
  parent_,               \* EventNode::parent_ (0 = nullptr)
  children_,             \* EventNode::children_
  group_id_,             \* EventNode::group_id_
  next_rule,             \* ConnectInterThread: the next rule
  root_pos,              \* CreateEventGroup: <<root type index, bucket index>>
  next_group_id,         \* CreateEventGroup: the id counter
  event_group_name_map,  \* group id -> name
  hist                   \* history of the run (what each step did)

vars ==
  <<host_trace, events, stats, schema, connect_info_list, root_event_types,
    pc, event_node_map, next_event, parent_nodes, parent_, children_,
    group_id_, next_rule, root_pos, next_group_id, event_group_name_map, hist>>

inputs == <<host_trace, events, schema, connect_info_list, root_event_types>>

\* ------------------------------------------------------------- sequences
RECURSIVE SeqsUpTo(_, _)
SeqsUpTo(S, n) ==
  IF n = 0 THEN {<<>>}
  ELSE LET shorter == SeqsUpTo(S, n - 1)
       IN  shorter \cup {Append(q, x) : q \in shorter, x \in S}

Range(q) == {q[k] : k \in 1 .. Len(q)}

\* ------------------------------------------------------- events and stats
\* IsNested (xplane_utils): the parent's timespan includes the event's,
\* both bounds inclusive.
IsNested(ev, i, p) ==
  ev[p].start <= ev[i].start /\ ev[i].end <= ev[p].end

SameLine(ev, i, j) == ev[i].plane = ev[j].plane /\ ev[i].line = ev[j].line

\* GetStat: the stat of type t of event i, Absent standing for nullptr.
GetStat(st, i, t) == st[i][t]

\* GetKernelEventType: kKernelLaunch or kKernelExecute, "" for nullopt.
GetKernelEventType(st, i) ==
  LET found_correlation_id == st[i][kCorrelationId] # Absent
      found_device_id == st[i][kDeviceId] # Absent
  IN  IF found_correlation_id
      THEN IF found_device_id THEN kKernelLaunch ELSE kKernelExecute
      ELSE ""

\* CreateEventNodeMap: one empty bucket per event type named by a rule or
\* by the root event types.
CreateEventNodeMap(rules, roots) ==
  LET keys == {rules[k].parent_event_type : k \in 1 .. Len(rules)}
              \cup {rules[k].child_event_type : k \in 1 .. Len(rules)}
              \cup Range(roots)
  IN  [t \in keys |-> <<>>]

\* gtl::FindOrNull on the event node map: the bucket, <<>> when missing.
FindOrNull(map, t) == IF t \in DOMAIN map THEN map[t] ELSE <<>>

\* event_node_map[t].push_back(n): operator[] creates the bucket if missing.
PushBack(map, t, n) ==
  [x \in DOMAIN map \cup {t} |->
     IF x = t THEN Append(FindOrNull(map, t), n) ELSE map[x]]

\* ------------------------------------------------------------- ownership
\* A node is owned (std::shared_ptr) by the buckets holding it, by the stack
\* of the line being processed and by the children_ of every owned node; the
\* parent_ back-reference is a raw pointer and owns nothing.  A node no owner
\* reaches has been destroyed.
RECURSIVE OwnedFrom(_, _)
OwnedFrom(chi, S) ==
  LET T == S \cup UNION {Range(chi[n]) : n \in S}
  IN  IF T = S THEN S ELSE OwnedFrom(chi, T)

AliveNodes(map, stack, chi) ==
  OwnedFrom(chi, UNION {Range(map[t]) : t \in DOMAIN map} \cup Range(stack))

Alive == AliveNodes(event_node_map, parent_nodes, children_)

\* Nodes some live node's parent_ still points to although they are destroyed.
Dangling == {parent_[n] : n \in Alive} \ (Alive \cup {0})

\* ------------------------------------------------------- context lookups
\* The result of a lookup: a stat ("ok"), nullopt ("absent"), unbounded
\* recursion ("diverge") or a fault ("crash").
Found(v) == [st |-> "ok", v |-> v]
NotFound == [st |-> "absent", v |-> Absent]
Diverges == [st |-> "diverge", v |-> Absent]
Crashes == [st |-> "crash", v |-> Absent]

\* What a read through a destroyed node can give for a stat type: nothing,
\* a fault, or any value (0 is the reading of a value of the wrong kind).
UafOutcomes(t) ==
  {NotFound, Crashes}
  \cup (IF t = kGraphType
        THEN {Found(StrStat("")), Found(StrStat("train"))}
        ELSE {Found(IntStat(v)) : v \in 0 .. MaxVal})

\* EventNode::GetContextStat on node n: the node's own stat, else the
\* parent's answer.  A chain of more than NumEvents nodes revisits a node
\* that lacks the stat, so the recursion never returns.  uaf[<<m, t>>] is
\* what the read of destroyed node m gives.
RECURSIVE GetContextStat(_, _, _, _, _, _, _)
GetContextStat(st, par, alive, uaf, n, t, fuel) ==
  IF n \notin alive THEN uaf[<<n, t>>]
  ELSE IF GetStat(st, n, t) # Absent THEN Found(GetStat(st, n, t))
  ELSE IF par[n] # 0
       THEN IF fuel = 0 THEN Diverges
            ELSE GetContextStat(st, par, alive, uaf, par[n], t, fuel - 1)
       ELSE NotFound

UafChoices(dangling, used) ==
  {f \in [dangling \X used -> UNION {UafOutcomes(t) : t \in used}] :
     \A d \in dangling, t \in used : f[<<d, t>>] \in UafOutcomes(t)}

\* ------------------------------------------------------------------ inputs
Planes == 0 .. NumDevices          \* 0 is the host plane

\* The timespans within 0 .. MaxTime, as <<start, end>>.
AllSpans == {sp \in (0 .. MaxTime) \X (0 .. MaxTime) : sp[1] <= sp[2]}

\* Instantaneous events at times 0 .. MaxPoint.
PointSpans == {<<t, t>> : t \in 0 .. MaxPoint}

EventRecs(planes, lines, types, spans) ==
  {[plane |-> p, line |-> l, type |-> t, start |-> sp[1], end |-> sp[2]] :
     p \in planes, l \in lines, t \in types, sp \in spans}

\* Events come plane by plane and line by line, and the events of a line are
\* ordered by start time; without a host plane nothing lies on plane 0.
WellOrdered(host, ev) ==
  /\ \A i \in Nodes : host \/ ev[i].plane # 0
  /\ \A i \in Nodes : i < NumEvents =>
       \/ ev[i].plane < ev[i + 1].plane
       \/ ev[i].plane = ev[i + 1].plane /\ ev[i].line < ev[i + 1].line
       \/ SameLine(ev, i, i + 1) /\ ev[i].start <= ev[i + 1].start

Schemas(groupSlot, nameSlot) ==
  [Planes -> [group_id : groupSlot, step_name : nameSlot]]

Rule(p, c, keys) ==
  [parent_event_type |-> p, child_event_type |-> c, stat_types |-> keys]

NoHist ==
  [intra_parent |-> [n \in Nodes |-> 0],
   rule_before |-> [n \in Nodes |-> 0],
   parent_keys |-> <<>>,
   child_keys |-> <<>>,
   matches |-> [n \in Nodes |-> <<>>],
   seeds |-> <<>>,
   visited |-> 0,
   group_before |-> [n \in Nodes |-> NoGroup],
   stats_before |-> <<>>,
   names_before |-> <<>>,
   next_before |-> 0,
   propagated |-> [gid |-> <<>>, st |-> <<>>, ok |-> FALSE],
   stats0 |-> <<>>,
   names0 |-> <<>>]

\* The state when GroupEvents is called: no node exists yet.
InitOver(hosts, eventRecs, statRecs, schemas, rules, roots, names) ==
  /\ host_trace \in hosts
  /\ events \in {ev \in [Nodes -> eventRecs] : WellOrdered(host_trace, ev)}
  /\ stats \in [Nodes -> statRecs]
  /\ schema \in schemas
  /\ connect_info_list \in rules
  /\ root_event_types \in roots
  /\ event_group_name_map \in names
  /\ pc = "start"
  /\ event_node_map = <<>>
  /\ next_event = 1
  /\ parent_nodes = <<>>
  /\ parent_ = [n \in Nodes |-> 0]
  /\ children_ = [n \in Nodes |-> <<>>]
  /\ group_id_ = [n \in Nodes |-> NoGroup]
  /\ next_rule = 1
  /\ root_pos = <<1, 0>>
  /\ next_group_id = 0
  /\ hist = [NoHist EXCEPT !.stats0 = stats, !.stats_before = stats,
                           !.names0 = event_group_name_map,
                           !.names_before = event_group_name_map]

\* --------------------------------------------------------- loop positions
\* CreateEventGroup visits the buckets of the root types in order; the first
\* position after <<r, k>>, <<0, 0>> when the loops are over.
RECURSIVE NextRootPos(_, _, _, _)
NextRootPos(map, roots, r, k) ==
  IF r > Len(roots) THEN <<0, 0>>
  ELSE IF k + 1 <= Len(FindOrNull(map, roots[r])) THEN <<r, k + 1>>
  ELSE NextRootPos(map, roots, r + 1, 0)

AfterInter(map, roots) ==
  IF NextRootPos(map, roots, 1, 0) = <<0, 0>> THEN "done" ELSE "group"

AfterIntra(map, rules, roots) ==
  IF Len(rules) > 0 THEN "inter" ELSE AfterInter(map, roots)

\* ----------------------------------------------------------- GroupEvents
\* GroupEventsEntry, except that a null host_trace is not checked for.
GroupEventsEntryUnchecked ==
  /\ pc = "start"
  /\ pc' = "intra"
  /\ event_node_map' = CreateEventNodeMap(connect_info_list, root_event_types)
  /\ UNCHANGED <<inputs, stats, next_event, parent_nodes, parent_, children_,
                 group_id_, next_rule, root_pos, next_group_id,
                 event_group_name_map, hist>>

\* GroupEvents up to the first pass: return at once on a null host_trace,
\* else create the event node map.
GroupEventsEntry ==
  /\ pc = "start"
  /\ IF ~host_trace
     THEN /\ pc' = "done"
          /\ UNCHANGED event_node_map
     ELSE /\ pc' = "intra"
          /\ event_node_map' =
               CreateEventNodeMap(connect_info_list, root_event_types)
  /\ UNCHANGED <<inputs, stats, next_event, parent_nodes, parent_, children_,
                 group_id_, next_rule, root_pos, next_group_id,
                 event_group_name_map, hist>>

\* ----------------------------------------------------- ConnectIntraThread
\* PopNotNested, except that the whole stack goes once the top does not
\* contain event i.
PopAllNotNested(ev, stack, i) ==
  IF stack = <<>> THEN stack
  ELSE IF IsNested(ev, i, stack[Len(stack)]) THEN stack
  ELSE <<>>

\* The while loop over the stack: pop until the top contains event i.
RECURSIVE PopNotNested(_, _, _)
PopNotNested(ev, stack, i) ==
  IF stack = <<>> THEN stack
  ELSE IF IsNested(ev, i, stack[Len(stack)]) THEN stack
  ELSE PopNotNested(ev, SubSeq(stack, 1, Len(stack) - 1), i)

\* The buckets after the two appends of the loop body.
BucketsAfter(map, ev, st, i) ==
  LET byType == IF ev[i].type \in DOMAIN map
                THEN PushBack(map, ev[i].type, i) ELSE map
      kernel_event_type == GetKernelEventType(st, i)
  IN  IF (kKernelLaunch \in DOMAIN map \/ kKernelExecute \in DOMAIN map)
         /\ kernel_event_type # ""
      THEN PushBack(byType, kernel_event_type, i)
      ELSE byType

\* One iteration of the event loop of ConnectIntraThread: wrap event
\* next_event, nest it under the innermost open event containing it, push it
\* and file it in the buckets.  The stack is destroyed with its line.
ConnectIntraThreadStep ==
  /\ pc = "intra"
  /\ LET cur_node == next_event
         open == PopNotNested(events, parent_nodes, cur_node)
         parent_node == IF open = <<>> THEN 0 ELSE open[Len(open)]
         lastOfLine == cur_node = NumEvents
                       \/ ~SameLine(events, cur_node, cur_node + 1)
         map == BucketsAfter(event_node_map, events, stats, cur_node)
     IN  /\ parent_' = [parent_ EXCEPT ![cur_node] = parent_node]
         /\ children_' =
              IF parent_node = 0 THEN children_
              ELSE [children_ EXCEPT ![parent_node] = Append(@, cur_node)]
         /\ parent_nodes' = IF lastOfLine THEN <<>> ELSE Append(open, cur_node)
         /\ event_node_map' = map
         /\ next_event' = cur_node + 1
         /\ hist' = [hist EXCEPT !.intra_parent[cur_node] = parent_node]
         /\ pc' = IF cur_node < NumEvents THEN "intra"
                  ELSE AfterIntra(map, connect_info_list, root_event_types)
  /\ UNCHANGED <<inputs, stats, group_id_, next_rule, root_pos, next_group_id,
                 event_group_name_map>>

\* ----------------------------------------------------- ConnectInterThread
\* The inner loop over stat_types: the key of node n, abandoned ("skip") at
\* the first stat that does not resolve.
RECURSIVE ResolveKey(_, _, _, _, _, _, _, _)
ResolveKey(st, par, alive, uaf, n, stat_types, k, acc) ==
  IF k > Len(stat_types) THEN [st |-> "ok", key |-> acc]
  ELSE LET stat == GetContextStat(st, par, alive, uaf, n, stat_types[k],
                                  NumEvents)
       IN  IF stat.st = "ok"
           THEN ResolveKey(st, par, alive, uaf, n, stat_types, k + 1,
                           Append(acc, KeyValue(stat.v)))
           ELSE IF stat.st = "absent" THEN [st |-> "skip", key |-> acc]
           ELSE [st |-> stat.st, key |-> acc]

\* connect_map[key] = node
MapPut(cmap, key, node) ==
  [x \in DOMAIN cmap \cup {key} |-> IF x = key THEN node ELSE cmap[x]]

\* The loop over the parent bucket, from index k: acc.map is connect_map,
\* acc.keys the key resolved for each bucket entry, acc.st "ok" until a
\* lookup fails to return.
\* PutParent, except that the first node with a key keeps its entry.
PutParentFirstWins(acc, parent_event_node, stats_) ==
  [st |-> IF stats_.st \in {"ok", "skip"} THEN "ok" ELSE stats_.st,
   map |-> IF stats_.st = "ok" /\ stats_.key \notin DOMAIN acc.map
           THEN MapPut(acc.map, stats_.key, parent_event_node)
           ELSE acc.map,
   keys |-> Append(acc.keys, stats_)]

\* The end of the parent loop body: a complete key enters connect_map,
\* overwriting the entry of an earlier node with the same key.
PutParent(acc, parent_event_node, stats_) ==
  [st |-> IF stats_.st \in {"ok", "skip"} THEN "ok" ELSE stats_.st,
   map |-> IF stats_.st = "ok"
           THEN MapPut(acc.map, stats_.key, parent_event_node)
           ELSE acc.map,
   keys |-> Append(acc.keys, stats_)]

RECURSIVE BuildConnectMap(_, _, _, _, _, _, _, _)
BuildConnectMap(st, par, alive, uaf, stat_types, bucket, k, acc) ==
  IF k > Len(bucket) \/ acc.st # "ok" THEN acc
  ELSE BuildConnectMap(st, par, alive, uaf, stat_types, bucket, k + 1,
         PutParent(acc, bucket[k],
                   ResolveKey(st, par, alive, uaf, bucket[k], stat_types,
                              1, <<>>)))

\* AddChild and SetParent of the child loop.
SetParent(par, child, parent) == [par EXCEPT ![child] = parent]
AddChild(chi, parent, child) == [chi EXCEPT ![parent] = Append(@, child)]

\* The loop over the child bucket, from index k: acc.par and acc.chi are the
\* links so far, acc.keys the key and the parent found for each entry.
\* LinkChild, except that a child that has a parent keeps it.
LinkChildKeepParent(acc, cmap, child_event_node, stats_) ==
  LET hit == stats_.st = "ok" /\ stats_.key \in DOMAIN cmap
      parent_event_node == IF hit THEN cmap[stats_.key] ELSE 0
      link == hit /\ acc.par[child_event_node] = 0
  IN  [st |-> IF stats_.st \in {"ok", "skip"} THEN "ok" ELSE stats_.st,
       par |-> IF link
               THEN SetParent(acc.par, child_event_node, parent_event_node)
               ELSE acc.par,
       chi |-> IF link
               THEN AddChild(acc.chi, parent_event_node, child_event_node)
               ELSE acc.chi,
       keys |-> Append(acc.keys,
                 [st |-> stats_.st, key |-> stats_.key,
                  parent |-> parent_event_node])]

\* The end of the child loop body: a child whose complete key is in
\* connect_map is added to the children of the node found there and gets it
\* as parent.
LinkChild(acc, cmap, child_event_node, stats_) ==
  LET hit == stats_.st = "ok" /\ stats_.key \in DOMAIN cmap
      parent_event_node == IF hit THEN cmap[stats_.key] ELSE 0
  IN  [st |-> IF stats_.st \in {"ok", "skip"} THEN "ok" ELSE stats_.st,
       par |-> IF hit
               THEN SetParent(acc.par, child_event_node, parent_event_node)
               ELSE acc.par,
       chi |-> IF hit
               THEN AddChild(acc.chi, parent_event_node, child_event_node)
               ELSE acc.chi,
       keys |-> Append(acc.keys,
                 [st |-> stats_.st, key |-> stats_.key,
                  parent |-> parent_event_node])]

RECURSIVE LinkChildren(_, _, _, _, _, _, _, _)
LinkChildren(st, alive, uaf, stat_types, cmap, bucket, k, acc) ==
  IF k > Len(bucket) \/ acc.st # "ok" THEN acc
  ELSE LinkChildren(st, alive, uaf, stat_types, cmap, bucket, k + 1,
         LinkChild(acc, cmap, bucket[k],
                   ResolveKey(st, acc.par, alive, uaf, bucket[k], stat_types,
                              1, <<>>)))

\* The pc after a step that ended with status st.
Outcome(st, next) ==
  IF st = "diverge" THEN "diverged"
  ELSE IF st = "crash" THEN "crashed" ELSE next

\* The body of the rule loop for one rule, given what reads through
\* destroyed nodes give: the links, the keys resolved and the status.
ConnectRule(st, par, chi, map, alive, uaf, connect_info) ==
  LET parents == BuildConnectMap(st, par, alive, uaf,
                   connect_info.stat_types,
                   FindOrNull(map, connect_info.parent_event_type),
                   1, [st |-> "ok", map |-> <<>>, keys |-> <<>>])
      linked == LinkChildren(st, alive, uaf, connect_info.stat_types,
                  parents.map,
                  IF parents.st = "ok"
                  THEN FindOrNull(map, connect_info.child_event_type)
                  ELSE <<>>,
                  1, [st |-> parents.st, par |-> par, chi |-> chi,
                      keys |-> <<>>])
  IN  [st |-> linked.st, par |-> linked.par, chi |-> linked.chi,
       parent_keys |-> parents.keys, child_keys |-> linked.keys]

\* One iteration of the rule loop of ConnectInterThread: build connect_map
\* from the parent bucket, then link every child bucket node whose key is in
\* the map.  A read through a destroyed node gives any of UafOutcomes.
ConnectInterThreadStep ==
  /\ pc = "inter"
  /\ LET connect_info == connect_info_list[next_rule]
         bucket == FindOrNull(event_node_map, connect_info.child_event_type)
     IN  \E alive \in {Alive} :
         \E rule \in {ConnectRule(stats, parent_, children_, event_node_map,
                                  alive, uaf, connect_info) :
                        uaf \in UafChoices(Dangling,
                                           Range(connect_info.stat_types))} :
           LET hits == {k \in 1 .. Len(rule.child_keys) :
                          rule.child_keys[k].parent # 0}
               Last(n) == CHOOSE k \in hits :
                            /\ bucket[k] = n
                            /\ \A j \in hits : bucket[j] = n => j <= k
               matched == {bucket[k] : k \in hits}
           IN  /\ parent_' = rule.par
               /\ children_' = rule.chi
               /\ next_rule' = next_rule + 1
               /\ hist' =
                    [hist EXCEPT
                       !.rule_before = parent_,
                       !.parent_keys = rule.parent_keys,
                       !.child_keys = rule.child_keys,
                       !.matches =
                          [n \in Nodes |->
                             IF n \in matched
                             THEN Append(@[n],
                                    [rule |-> next_rule,
                                     parent |->
                                       rule.child_keys[Last(n)].parent])
                             ELSE @[n]]]
               /\ pc' = Outcome(rule.st,
                          IF next_rule < Len(connect_info_list) THEN "inter"
                          ELSE AfterInter(event_node_map, root_event_types))
  /\ UNCHANGED <<inputs, stats, event_node_map, next_event, parent_nodes,
                 group_id_, root_pos, next_group_id, event_group_name_map>>

\* -------------------------------------------------------- CreateEventGroup
\* SetGroupId: AddOrUpdateIntStat when the plane has group_id stat metadata.
SetGroupId(sch, ev, st, n, group_id) ==
  IF sch[ev[n].plane].group_id
  THEN [st EXCEPT ![n][kGroupId] = IntStat(group_id)]
  ELSE st

\* EventNode::PropagateGroupId on node n, called at recursion depth `depth`:
\* set the id of n, then recurse into the children in order.  acc.gid and
\* acc.st are the group ids and the stats so far.  More than NumEvents
\* nested calls have a node twice on the call stack, so the recursion never
\* returns (acc.ok = FALSE).
RECURSIVE PropagateGroupId(_, _, _, _, _, _, _)
RECURSIVE PropagateChildren(_, _, _, _, _, _, _, _)
\* PropagateGroupId, except that a node that has a group id keeps it and
\* stops the descent.
PropagateGroupIdKeep(sch, ev, chi, acc, n, group_id, depth) ==
  IF depth > NumEvents THEN [acc EXCEPT !.ok = FALSE]
  ELSE IF acc.gid[n] # NoGroup THEN acc
  ELSE PropagateChildren(sch, ev, chi,
         [gid |-> [acc.gid EXCEPT ![n] = group_id],
          st |-> SetGroupId(sch, ev, acc.st, n, group_id),
          ok |-> TRUE],
         chi[n], 1, group_id, depth)

PropagateGroupId(sch, ev, chi, acc, n, group_id, depth) ==
  IF depth > NumEvents THEN [acc EXCEPT !.ok = FALSE]
  ELSE PropagateChildren(sch, ev, chi,
         [gid |-> [acc.gid EXCEPT ![n] = group_id],
          st |-> SetGroupId(sch, ev, acc.st, n, group_id),
          ok |-> TRUE],
         chi[n], 1, group_id, depth)

PropagateChildren(sch, ev, chi, acc, kids, k, group_id, depth) ==
  IF k > Len(kids) \/ ~acc.ok THEN acc
  ELSE PropagateChildren(sch, ev, chi,
         PropagateGroupId(sch, ev, chi, acc, kids[k], group_id, depth + 1),
         kids, k + 1, group_id, depth)

\* absl::StrCat of a non-negative integer: its decimal digits.
Digit(d) ==
  CASE d = 0 -> "0" [] d = 1 -> "1" [] d = 2 -> "2" [] d = 3 -> "3"
    [] d = 4 -> "4" [] d = 5 -> "5" [] d = 6 -> "6" [] d = 7 -> "7"
    [] d = 8 -> "8" [] d = 9 -> "9"

RECURSIVE StrCat(_)
StrCat(n) == IF n < 10 THEN Digit(n) ELSE StrCat(n \div 10) \o Digit(n % 10)

\* EventNode::GetGroupName: the graph type, if one resolves, and the sum of
\* step number and iteration number, joined by a space.
GetGroupName(st, par, alive, uaf, n) ==
  LET graph_type_stat == GetContextStat(st, par, alive, uaf, n, kGraphType,
                                        NumEvents)
      step_num_stat == GetContextStat(st, par, alive, uaf, n, kStepNum,
                                      NumEvents)
      iter_num_stat == GetContextStat(st, par, alive, uaf, n, kIterNum,
                                      NumEvents)
      failed == IF graph_type_stat.st \in {"diverge", "crash"}
                THEN graph_type_stat.st
                ELSE IF step_num_stat.st \in {"diverge", "crash"}
                THEN step_num_stat.st
                ELSE IF iter_num_stat.st \in {"diverge", "crash"}
                THEN iter_num_stat.st
                ELSE "ok"
      step_num == (IF step_num_stat.st = "ok"
                   THEN Int64Value(step_num_stat.v) ELSE 0)
                  + (IF iter_num_stat.st = "ok"
                     THEN Int64Value(iter_num_stat.v) ELSE 0)
  IN  [st |-> failed,
       name |-> IF failed # "ok" THEN ""
                ELSE IF graph_type_stat.st = "ok"
                THEN StrValue(graph_type_stat.v) \o " " \o StrCat(step_num)
                ELSE StrCat(step_num)]

\* EventNode::AddStepName: AddOrUpdateStrStat under the step_name metadata id.
\* The id is read out of the optional unchecked: on a plane without step_name
\* metadata the read is of an empty optional, and the write goes under
\* whatever id was read (slot names the stat type it lands on, "other" an id
\* of no known stat type) unless the read faults ("crash").
AddStepName(sch, ev, st, n, step_name, slot) ==
  IF sch[ev[n].plane].step_name
  THEN [st EXCEPT ![n][kStepName] = StrStat(step_name)]
  ELSE IF slot \in StatTypes THEN [st EXCEPT ![n][slot] = StrStat(step_name)]
  ELSE st

NameSlots(sch, ev, n, root_event_type) ==
  IF root_event_type = kTraceContext /\ ~sch[ev[n].plane].step_name
  THEN StatTypes \cup {"other", "crash"}
  ELSE {"other"}

\* SkipRoot, except that no root is skipped.
SkipRootNever(gid, root_event_node) == FALSE

\* "Skip if it already belongs to a group": root_event_node->GetGroupId().
SkipRoot(gid, root_event_node) == gid[root_event_node] # NoGroup

\* The first destroyed node on the parent chain of n, if any.
RECURSIVE ChainDangling(_, _, _, _)
ChainDangling(par, alive, n, fuel) ==
  IF n \notin alive THEN {n}
  ELSE IF par[n] = 0 \/ fuel = 0 THEN {}
  ELSE ChainDangling(par, alive, par[n], fuel - 1)

\* The record of a visit of CreateEventGroup to a root node: the state before
\* it and the result of PropagateGroupId (ok = FALSE when it was not called
\* or did not return).
Visit(h, root_event_node, prop) ==
  [h EXCEPT !.visited = root_event_node,
            !.group_before = group_id_,
            !.stats_before = stats,
            !.names_before = event_group_name_map,
            !.next_before = next_group_id,
            !.propagated = prop,
            !.seeds = IF group_id_[root_event_node] = NoGroup
                      THEN Append(@, root_event_node) ELSE @]

\* One iteration of the bucket loop of CreateEventGroup: skip a root that has
\* a group id, else allocate the next id, propagate it, record the group name
\* and, for a kTraceContext root, add the step name.
CreateEventGroupStep ==
  /\ pc = "group"
  /\ LET pos == NextRootPos(event_node_map, root_event_types,
                            root_pos[1], root_pos[2])
         root_event_type == root_event_types[pos[1]]
         root_event_node == event_node_map[root_event_type][pos[2]]
         after == IF NextRootPos(event_node_map, root_event_types,
                                 pos[1], pos[2]) = <<0, 0>>
                  THEN "done" ELSE "group"
         group_id == next_group_id
     IN  /\ root_pos' = pos
         /\ IF SkipRoot(group_id_, root_event_node)
            THEN /\ pc' = after
                 /\ hist' = Visit(hist, root_event_node,
                                  [gid |-> group_id_, st |-> stats,
                                   ok |-> FALSE])
                 /\ UNCHANGED <<stats, group_id_, next_group_id,
                                event_group_name_map>>
            ELSE \E alive \in {Alive} :
                 \E prop \in {PropagateGroupId(schema, events, children_,
                                [gid |-> group_id_, st |-> stats,
                                 ok |-> TRUE],
                                root_event_node, group_id, 1)} :
                 \E name \in
                      IF prop.ok
                      THEN {GetGroupName(prop.st, parent_, alive, uaf,
                                         root_event_node) :
                              uaf \in UafChoices(
                                        ChainDangling(parent_, alive,
                                                      root_event_node,
                                                      NumEvents),
                                        {kGraphType, kStepNum, kIterNum})}
                      ELSE {[st |-> "diverge", name |-> ""]} :
                 \E slot \in IF name.st = "ok"
                             THEN NameSlots(schema, events, root_event_node,
                                            root_event_type)
                             ELSE {"other"} :
                   LET named == name.st = "ok"
                       stepped == named /\ root_event_type = kTraceContext
                   IN  /\ next_group_id' = group_id + 1
                       /\ group_id_' = prop.gid
                       /\ event_group_name_map' =
                            IF named
                            THEN [g \in DOMAIN event_group_name_map
                                        \cup {group_id} |->
                                    IF g = group_id THEN name.name
                                    ELSE event_group_name_map[g]]
                            ELSE event_group_name_map
                       /\ stats' =
                            IF stepped
                            THEN AddStepName(schema, events, prop.st,
                                             root_event_node, name.name, slot)
                            ELSE prop.st
                       /\ hist' = Visit(hist, root_event_node, prop)
                       /\ pc' = IF stepped /\ slot = "crash" THEN "crashed"
                                ELSE Outcome(name.st, after)
  /\ UNCHANGED <<inputs, event_node_map, next_event, parent_nodes, parent_,
                 children_, next_rule>>

Next ==
  \/ GroupEventsEntry
  \/ ConnectIntraThreadStep
  \/ ConnectInterThreadStep
  \/ CreateEventGroupStep

\* ---------------------------------------------------------- specifications
KeyStats == {[NoStats EXCEPT ![kStepId] = v] :
               v \in {Absent} \cup {IntStat(x) : x \in 1 .. MaxVal}}

LinkRules ==
  {Rule(kFunctionRun, kExecutorStateProcess, <<kStepId>>),
   Rule(kExecutorStateProcess, kExecutorStateProcess, <<kStepId>>)}

\* Linking: one line of instantaneous events; the event types, the key stats
\* and the rules vary.
InitLink ==
  InitOver({TRUE},
           EventRecs({0}, {1},
                     {kFunctionRun, kExecutorStateProcess,
                      kUnknownHostEventType},
                     PointSpans),
           KeyStats, Schemas({TRUE}, {TRUE}),
           SeqsUpTo(LinkRules, MaxRules) \ {<<>>},
           {<<kFunctionRun>>}, {<<>>})

SpecLink == InitLink /\ [][Next]_vars

\* Grouping: every event carries step id 1 and one rule links trace contexts
\* under function runs; the planes, the event types, the root event types and
\* the group_id metadata of the planes vary.
InitGroup ==
  InitOver({TRUE},
           EventRecs(Planes, {1},
                     {kTraceContext, kFunctionRun, kUnknownHostEventType},
                     PointSpans),
           {[NoStats EXCEPT ![kStepId] = IntStat(1)]},
           Schemas(BOOLEAN, {TRUE}),
           {<<Rule(kFunctionRun, kTraceContext, <<kStepId>>)>>},
           SeqsUpTo({kTraceContext, kFunctionRun}, MaxRoots), {<<>>})

SpecGroup == InitGroup /\ [][Next]_vars

\* Nesting: the planes and the timespans vary, the host trace may be null and
\* the name table may come with an entry.
InitIntra ==
  InitOver(BOOLEAN,
           EventRecs(Planes, {1}, {kFunctionRun, kUnknownHostEventType},
                     AllSpans),
           {NoStats}, Schemas({TRUE}, {TRUE}),
           {<<Rule(kFunctionRun, kFunctionRun, <<kStepId>>)>>},
           {<<kFunctionRun>>}, {<<>>, 0 :> "old"})

SpecIntra == InitIntra /\ [][Next]_vars

\* Naming: one host line of root events; the event types, the graph type,
\* step number and iteration number stats (at most one of them on an event)
\* and the step_name metadata of the host plane vary.
NameStats ==
  {NoStats, [NoStats EXCEPT ![kGraphType] = StrStat("train")],
   [NoStats EXCEPT ![kStepNum] = UintStat(MaxVal)],
   [NoStats EXCEPT ![kIterNum] = IntStat(MaxVal)]}
  \cup {[NoStats EXCEPT ![kStepNum] = IntStat(x)] : x \in 1 .. MaxVal}

HostNameSlot ==
  {[p \in Planes |-> [group_id |-> TRUE, step_name |-> p # 0 \/ b]] :
     b \in BOOLEAN}

InitName ==
  InitOver({TRUE},
           EventRecs({0}, {1}, {kTraceContext, kFunctionRun}, PointSpans),
           NameStats, HostNameSlot,
           {<<Rule(kFunctionRun, kTraceContext, <<kStepId>>)>>},
           {<<kTraceContext, kFunctionRun>>}, {<<>>})

SpecName == InitName /\ [][Next]_vars

\* Lines: two lines on every plane; the planes, the lines and the timespans
\* vary.
InitNest ==
  InitOver({TRUE},
           EventRecs(Planes, {1, 2}, {kFunctionRun, kUnknownHostEventType},
                     AllSpans),
           {NoStats}, Schemas({TRUE}, {TRUE}),
           {<<Rule(kFunctionRun, kFunctionRun, <<kStepId>>)>>},
           {<<kFunctionRun>>}, {<<>>})

SpecNest == InitNest /\ [][Next]_vars

\* Kernel events: one line per plane; the planes, the event types and the
\* correlation id and device id stats vary; the rules name both synthetic
\* event types, one of them or none.  The declared type of an event is never
\* a synthetic one.
KernelStats ==
  {[NoStats EXCEPT ![kCorrelationId] = c, ![kDeviceId] = d] :
     c \in {Absent, IntStat(1)}, d \in {Absent, IntStat(1)}}

KernelRules ==
  {Rule(kKernelLaunch, kKernelExecute, <<kCorrelationId>>),
   Rule(kKernelLaunch, kFunctionRun, <<kCorrelationId>>),
   Rule(kFunctionRun, kKernelExecute, <<kCorrelationId>>),
   Rule(kFunctionRun, kFunctionRun, <<kCorrelationId>>)}

InitKernel ==
  InitOver({TRUE},
           EventRecs(Planes, {1}, {kFunctionRun, kUnknownHostEventType},
                     PointSpans),
           KernelStats, Schemas({TRUE}, {TRUE}),
           {<<r>> : r \in KernelRules},
           {<<kFunctionRun>>}, {<<>>})

SpecKernel == InitKernel /\ [][Next]_vars

\* ------------------------------------------------------------------ claims
\* The nodes reachable from r through child lists, r included.
Reach(chi, r) == OwnedFrom(chi, {r})

\* Following parent_ from n reaches a node without parent.
RECURSIVE ChainEnds(_, _, _)
ChainEnds(par, n, fuel) ==
  IF par[n] = 0 THEN TRUE
  ELSE IF fuel = 0 THEN FALSE
  ELSE ChainEnds(par, par[n], fuel - 1)

\* a is a proper ancestor of n along parent_.
RECURSIVE IsAncestor(_, _, _, _)
IsAncestor(par, a, n, fuel) ==
  IF par[n] = 0 \/ fuel = 0 THEN FALSE
  ELSE par[n] = a \/ IsAncestor(par, a, par[n], fuel - 1)

\* Both linking passes have returned.
LinkingDone == host_trace /\ pc \in {"group", "done"}

\* A structural pass has just returned: the intra-thread passes, or
\* ConnectInterThread.
PassDone ==
  host_trace /\ (pc \in {"group", "done"} \/ (pc = "inter" /\ next_rule = 1))

\* The last visit of CreateEventGroup found the root without a group id.
Seeding == hist.visited # 0 /\ hist.group_before[hist.visited] = NoGroup

\* C1: once a node has a group id, no step of CreateEventGroup changes it
\* (first assignment wins).
C1_GroupIdAssignedOnce ==
  [][\A n \in Nodes :
       group_id_[n] # NoGroup => group_id_'[n] = group_id_[n]]_vars

\* C2: after both linking passes, the parent chain of every node ends at a
\* node without parent (no cycle of parent back-references).
C2_ParentChainsEnd ==
  LinkingDone => \A n \in Nodes : ChainEnds(parent_, n, NumEvents)

\* C3: after a structural pass, a node is in the child list of no node other
\* than the one its parent back-reference points to.
C3_ChildOfOneParent ==
  PassDone =>
    \A n \in Nodes, p \in Nodes :
      n \in Range(children_[p]) => parent_[n] = p

\* C4: started with an empty name table, CreateEventGroup hands out ids
\* 0, 1, 2, ... to the visited nodes that have no group id, one name-table
\* entry each, and a visited node that has a group id changes nothing; the
\* keys of the name table are 0 .. n-1 for n seeding nodes.
C4_DenseGroupIds ==
  (LinkingDone /\ hist.names0 = <<>>) =>
    /\ next_group_id = Len(hist.seeds)
    /\ DOMAIN event_group_name_map = 0 .. (Len(hist.seeds) - 1)
    /\ hist.visited # 0 =>
         IF Seeding
         THEN /\ group_id_[hist.visited] = Len(hist.seeds) - 1
              /\ DOMAIN hist.names_before = 0 .. (Len(hist.seeds) - 2)
         ELSE /\ next_group_id = hist.next_before
              /\ event_group_name_map = hist.names_before
              /\ group_id_ = hist.group_before

C4_Witness ==
  /\ pc = "done"
  /\ hist.names0 = <<>>
  /\ Len(hist.seeds) = 2
  /\ hist.visited # 0
  /\ ~Seeding

\* C5: when PropagateGroupId(g) returns for a seeding root, the root and every
\* node reachable through child lists has group id g, whatever id it had
\* before, and its event has the group id stat g if the plane has group_id
\* metadata and is unchanged if not.
C5_PropagateCoversTree ==
  (Seeding /\ hist.propagated.ok) =>
    \A n \in Reach(children_, hist.visited) :
      /\ hist.propagated.gid[n] = hist.next_before
      /\ IF schema[events[n].plane].group_id
         THEN hist.propagated.st[n][kGroupId] = IntStat(hist.next_before)
         ELSE hist.propagated.st[n] = hist.stats_before[n]

C5_Witness ==
  /\ Seeding
  /\ hist.propagated.ok
  /\ \E n \in Reach(children_, hist.visited), m \in Reach(children_, hist.visited) :
       /\ hist.group_before[n] \notin {NoGroup, hist.next_before}
       /\ schema[events[n].plane].group_id
       /\ ~schema[events[m].plane].group_id

\* A rule of ConnectInterThread has just been processed to the end.
RuleDone == host_trace /\ pc \in {"inter", "group", "done"} /\ next_rule > 1

LastRule == connect_info_list[next_rule - 1]
ParentBucket == FindOrNull(event_node_map, LastRule.parent_event_type)
ChildBucket == FindOrNull(event_node_map, LastRule.child_event_type)

\* The key of node n under the last rule in the state before the rule, "uaf"
\* if resolving it reads a destroyed node.
StaticKey(n) ==
  ResolveKey(stats, hist.rule_before, Alive,
             [x \in Nodes \X StatTypes |-> [st |-> "uaf", v |-> Absent]],
             n, LastRule.stat_types, 1, <<>>)

\* The entries of the parent bucket that produced the key of child entry k.
SameKey(k) ==
  {j \in 1 .. Len(hist.parent_keys) :
     /\ hist.parent_keys[j].st = "ok"
     /\ hist.child_keys[k].st = "ok"
     /\ hist.parent_keys[j].key = hist.child_keys[k].key}

LastOf(S) == CHOOSE j \in S : \A i \in S : i <= j

\* The child bucket entries of node n that matched a parent key.
MatchedAt(n) ==
  {k \in 1 .. Len(hist.child_keys) : ChildBucket[k] = n /\ SameKey(k) # {}}

\* C6: right after a rule, a child bucket node whose key is complete and is
\* the key of some parent bucket node has as parent the last parent bucket
\* node with that key and is in its child list; a child bucket node that
\* matched no key has the parent it had before the rule.  The keys are those
\* the nodes have in the state before the rule.
C6_LastParentWins ==
  RuleDone =>
    /\ Len(hist.parent_keys) = Len(ParentBucket)
    /\ Len(hist.child_keys) = Len(ChildBucket)
    /\ \A j \in 1 .. Len(ParentBucket) :
         StaticKey(ParentBucket[j]).st # "uaf" =>
           hist.parent_keys[j] = StaticKey(ParentBucket[j])
    /\ \A k \in 1 .. Len(ChildBucket) :
         /\ StaticKey(ChildBucket[k]).st # "uaf" =>
              /\ hist.child_keys[k].st = StaticKey(ChildBucket[k]).st
              /\ hist.child_keys[k].key = StaticKey(ChildBucket[k]).key
         /\ IF MatchedAt(ChildBucket[k]) = {}
            THEN parent_[ChildBucket[k]] = hist.rule_before[ChildBucket[k]]
            ELSE LET p == ParentBucket[
                            LastOf(SameKey(LastOf(MatchedAt(ChildBucket[k]))))]
                 IN  /\ parent_[ChildBucket[k]] = p
                     /\ ChildBucket[k] \in Range(children_[p])

C6_Witness ==
  /\ RuleDone
  /\ \E k \in 1 .. Len(ChildBucket) :
       /\ \E i \in SameKey(k), j \in SameKey(k) :
            i < j /\ ParentBucket[i] # ParentBucket[j]
       /\ parent_[ChildBucket[k]] = ParentBucket[LastOf(SameKey(k))]
       /\ parent_[ChildBucket[k]] # hist.rule_before[ChildBucket[k]]
       /\ parent_[ChildBucket[k]] # ChildBucket[k]

\* C7: after ConnectInterThread, a node matched as a child under some rule has
\* the parent found by the last rule under which it matched, whatever parent
\* ConnectIntraThread or an earlier rule gave it; a node matched under no rule
\* has its intra-thread parent or none.
C7_LastRuleWins ==
  LinkingDone =>
    \A n \in Nodes :
      parent_[n] = IF hist.matches[n] = <<>> THEN hist.intra_parent[n]
                   ELSE hist.matches[n][Len(hist.matches[n])].parent

C7_Witness ==
  /\ LinkingDone
  /\ \E n \in Nodes :
       /\ Len(hist.matches[n]) = 2
       /\ hist.matches[n][1].parent # hist.matches[n][2].parent
       /\ hist.intra_parent[n] # 0
       /\ parent_[n] # hist.intra_parent[n]
       /\ parent_[n] = hist.matches[n][2].parent

\* The intra-thread passes have returned.
IntraDone == host_trace /\ pc \notin {"start", "intra"}

\* C8 as stated: after ConnectIntraThread, of two events of a line the
\* enclosed one is a descendant of the enclosing one.
C8_EnclosedIsDescendant ==
  IntraDone =>
    \A i \in Nodes, j \in Nodes :
      (i # j /\ SameLine(events, i, j) /\ IsNested(events, j, i)) =>
        IsAncestor(hist.intra_parent, i, j, NumEvents)

\* The events of every line are properly nested: an event that does not
\* enclose a later event of its line encloses none of the events after it.
ProperlyNested ==
  \A i \in Nodes, j \in Nodes, k \in Nodes :
    (i < j /\ j < k /\ SameLine(events, i, k)
       /\ ~IsNested(events, j, i)) => ~IsNested(events, k, i)

\* C8 amended: after ConnectIntraThread on properly nested lines, an event
\* enclosed by an earlier event of its line is a descendant of it.
C8_EnclosedByEarlierIsDescendant ==
  (IntraDone /\ ProperlyNested) =>
    \A i \in Nodes, j \in Nodes :
      (i < j /\ SameLine(events, i, j) /\ IsNested(events, j, i)) =>
        IsAncestor(hist.intra_parent, i, j, NumEvents)

C8_Witness ==
  /\ IntraDone
  /\ ProperlyNested
  /\ \E i \in Nodes, j \in Nodes, k \in Nodes :
       /\ i < j /\ j < k /\ SameLine(events, i, k)
       /\ IsNested(events, j, i) /\ IsNested(events, k, i)
       /\ ~IsNested(events, k, j)
       /\ events[i].end > events[j].end
       /\ hist.intra_parent[k] = i

\* C9: GroupEvents runs to completion: no lookup and no propagation recurses
\* without end.
C9_Terminates == pc # "diverged"

\* C10: with a null host trace GroupEvents returns with the name table, the
\* events and the nodes as they were: nothing created, linked or written.
C10_NullHostNoOp ==
  (~host_trace /\ pc # "start") =>
    /\ pc = "done"
    /\ event_group_name_map = hist.names0
    /\ stats = hist.stats0
    /\ next_event = 1
    /\ event_node_map = <<>>
    /\ \A n \in Nodes :
         parent_[n] = 0 /\ children_[n] = <<>> /\ group_id_[n] = NoGroup

C10_Witness ==
  /\ ~host_trace
  /\ pc = "done"
  /\ event_group_name_map # <<>>
  /\ connect_info_list # <<>>
  /\ root_event_types # <<>>
  /\ \E n \in Nodes : events[n].type \in Range(root_event_types)

\* A rule of ConnectInterThread has been entered (and left, unless a lookup
\* did not return).
RuleRun == host_trace /\ next_rule > 1

\* The lookup of stat type t from node n along the parent chain as it was
\* before the last rule, every node of the chain taken as readable.
ChainStat(n, t) ==
  GetContextStat(stats, hist.rule_before, Nodes, <<>>, n, t, NumEvents)

\* Some key attribute of the last rule is carried neither by node n nor by
\* any node of its parent chain.
MissesKey(n) ==
  \E k \in 1 .. Len(LastRule.stat_types) :
    ChainStat(n, LastRule.stat_types[k]).st # "ok"

\* C11: under a rule, a node that misses a key attribute on its whole parent
\* chain is skipped without error: as a parent bucket node it does not enter
\* connect_map, as a child bucket node it is linked under no parent.
C11_MissingKeyExcluded ==
  RuleRun =>
    /\ \A j \in 1 .. Len(hist.parent_keys) :
         MissesKey(ParentBucket[j]) => hist.parent_keys[j].st = "skip"
    /\ \A k \in 1 .. Len(hist.child_keys) :
         MissesKey(ChildBucket[k]) =>
           /\ hist.child_keys[k].st = "skip"
           /\ hist.child_keys[k].parent = 0

\* The lookup of stat type t from node n at the last visit of
\* CreateEventGroup, every node of the parent chain taken as readable.
VisitStat(n, t) ==
  GetContextStat(hist.stats_before, parent_, Nodes, <<>>, n, t, NumEvents)

\* The number a stat found on the chain stands for, 0 when none is found.
NumberOf(found) == IF found.st = "ok" THEN found.v.i ELSE 0

\* The name the claim gives the group seeded at node n.
NameOf(n) ==
  LET s == NumberOf(VisitStat(n, kStepNum)) + NumberOf(VisitStat(n, kIterNum))
  IN  IF VisitStat(n, kGraphType).st = "ok"
      THEN VisitStat(n, kGraphType).v.s \o " " \o StrCat(s)
      ELSE StrCat(s)

\* C12: the name recorded for the group a root seeds is the decimal sum of
\* the step number and the iteration number found on the root's parent chain
\* (0 for one that is not found), preceded by the graph type and a space when
\* a graph type is found.
C12_GroupNameFromChain ==
  Seeding =>
    /\ hist.next_before \in DOMAIN event_group_name_map
    /\ event_group_name_map[hist.next_before] = NameOf(hist.visited)

\* C13: a visit of CreateEventGroup writes the step name stat on the visited
\* root's event exactly when the root seeds a group and its event type is
\* kTraceContext, the value being the name-table entry of the group seeded;
\* the step name stat of every other event is as before the visit.
C13_StepNameOnTraceContextSeed ==
  hist.visited # 0 =>
    \A n \in Nodes :
      IF n = hist.visited /\ Seeding /\ events[n].type = kTraceContext
      THEN /\ hist.next_before \in DOMAIN event_group_name_map
           /\ stats[n][kStepName] =
                StrStat(event_group_name_map[hist.next_before])
      ELSE stats[n][kStepName] = hist.stats_before[n][kStepName]

\* The node d parent back-references above n, 0 once the chain has ended.
RECURSIVE AncestorAt(_, _, _)
AncestorAt(par, n, d) ==
  IF d = 0 \/ n = 0 THEN n ELSE AncestorAt(par, par[n], d - 1)

\* The distances from n at which the parent chain has a node carrying t.
CarriedAt(par, st, n, t) ==
  {d \in 0 .. NumEvents :
     /\ AncestorAt(par, n, d) # 0
     /\ st[AncestorAt(par, n, d)][t] # Absent}

\* The stat of type t of the nearest node of the chain of n that carries one.
NearestOnChain(par, st, n, t) ==
  LET at == CarriedAt(par, st, n, t)
      d == CHOOSE x \in at : \A y \in at : x <= y
  IN  IF at = {} THEN NotFound ELSE Found(st[AncestorAt(par, n, d)][t])

\* C14: a context lookup returns the stat of the nearest node of the parent
\* chain that carries the stat type, the node itself first, and absent
\* exactly when no node of the chain carries it.  Stated of the lookups of the
\* parent loop of the last rule, whose results are the keys it resolved.
C14_NearestOnChain ==
  RuleRun =>
    \A j \in 1 .. Len(hist.parent_keys) :
      LET want == NearestOnChain(hist.rule_before, stats, ParentBucket[j],
                                 LastRule.stat_types[1])
      IN  hist.parent_keys[j] =
            IF want.st = "ok"
            THEN [st |-> "ok", key |-> <<KeyValue(want.v)>>]
            ELSE [st |-> "skip", key |-> <<>>]

\* ConnectIntraThread is running or has returned, and no rule has run yet.
IntraOnly == host_trace /\ pc # "start" /\ next_rule = 1

\* The earlier events of the line of event n that contain it and every event
\* between them and n: the events still on the stack when n is wrapped that
\* contain n.
OpenAround(n) ==
  {j \in 1 .. (n - 1) :
     /\ SameLine(events, j, n)
     /\ IsNested(events, n, j)
     /\ \A k \in (j + 1) .. (n - 1) : IsNested(events, k, j)}

\* The number of entries of sequence q that are x.
Count(q, x) == Cardinality({k \in 1 .. Len(q) : q[k] = x})

\* C15: after ConnectIntraThread alone, the parent of a node is an earlier
\* event of the same line of the same plane that contains it, namely the
\* latest one still open that contains it; the node is once in the child list
\* of that parent and in no other child list; a node no open event contains
\* has no parent.
C15_ParentIsInnermostOpen ==
  IntraOnly =>
    \A n \in 1 .. (next_event - 1) :
      LET open == OpenAround(n)
          want == IF open = {} THEN 0 ELSE LastOf(open)
      IN  /\ parent_[n] = want
          /\ parent_[n] # 0 =>
               /\ SameLine(events, parent_[n], n)
               /\ parent_[n] < n
               /\ IsNested(events, n, parent_[n])
          /\ \A p \in Nodes :
               Count(children_[p], n) = IF p = want THEN 1 ELSE 0

C15_Witness ==
  /\ IntraOnly
  /\ next_event > NumEvents
  /\ \E i \in Nodes, j \in Nodes, n \in Nodes :
       /\ i < j /\ j < n
       /\ SameLine(events, i, n)
       /\ parent_[j] = i
       /\ ~IsNested(events, n, j)
       /\ parent_[n] = i
       /\ children_[i] = <<j, n>>

\* The event types GroupEvents tracks: those named by a rule or as a root.
Tracked == DOMAIN CreateEventNodeMap(connect_info_list, root_event_types)

EventTypes ==
  {kUnknownHostEventType, kTraceContext, kSessionRun, kFunctionRun,
   kExecutorStateProcess, kKernelLaunch, kKernelExecute}

\* Node n belongs under event type t: by its declared type, or as a kernel
\* execute (correlation id, no device id) or a kernel launch (both).
BelongsTo(n, t) ==
  \/ events[n].type = t
  \/ /\ t = kKernelExecute
     /\ stats[n][kCorrelationId] # Absent
     /\ stats[n][kDeviceId] = Absent
  \/ /\ t = kKernelLaunch
     /\ stats[n][kCorrelationId] # Absent
     /\ stats[n][kDeviceId] # Absent

InBucket(n, t) ==
  t \in DOMAIN event_node_map /\ n \in Range(event_node_map[t])

\* C16: after the intra-thread passes a node is in the bucket of event type t
\* exactly when t is tracked and the node belongs under t, every bucket lists
\* its nodes in discovery order without duplicates, and a node is in at most
\* two buckets, never in both synthetic ones.
C16_BucketsByType ==
  IntraDone =>
    /\ \A n \in Nodes, t \in EventTypes :
         InBucket(n, t) <=> (t \in Tracked /\ BelongsTo(n, t))
    /\ \A t \in DOMAIN event_node_map :
         \A i \in 1 .. Len(event_node_map[t]), j \in 1 .. Len(event_node_map[t]) :
           i < j => event_node_map[t][i] < event_node_map[t][j]
    /\ \A n \in Nodes :
         /\ Cardinality({t \in EventTypes : InBucket(n, t)}) <= 2
         /\ ~(InBucket(n, kKernelLaunch) /\ InBucket(n, kKernelExecute))

\* C17: ConnectIntraThread leaves the set of keys of the event node map as
\* CreateEventNodeMap made it.
C17_KeysUnchanged ==
  (host_trace /\ pc # "start") => DOMAIN event_node_map = Tracked

\* GroupEvents has returned from a call with a host trace.
Returned == host_trace /\ pc = "done"

\* C18: when GroupEvents returns, every group of the name table still has the
\* root that seeded it: the k-th seeding root carries group id k - 1.
C18_SeedKeepsGroup ==
  (Returned /\ hist.names0 = <<>>) =>
    \A g \in DOMAIN event_group_name_map :
      /\ g + 1 \in 1 .. Len(hist.seeds)
      /\ group_id_[hist.seeds[g + 1]] = g

\* C19: when GroupEvents returns, a node whose parent back-reference points to
\* a node with a group id has that group id.
C19_GroupFollowsParent ==
  Returned =>
    \A n \in Alive :
      (parent_[n] # 0 /\ group_id_[parent_[n]] # NoGroup) =>
        group_id_[n] = group_id_[parent_[n]]

====
